---- MODULE Spec2Model ----
(***************************************************************************)
(* Model of the workspace++ core (hpc-workspace): Workspace::Workspace,     *)
(* Workspace::validate, Workspace::allocate, Workspace::release,           *)
(* Workspace::restore, Workspace::mv, raise_cap / lower_cap / drop_cap and  *)
(* WsDB::write_dbfile / WsDB::read_dbfile.                                  *)
(*                                                                          *)
(* The capability build (no SETUID define) is modelled: the process runs    *)
(* with the real and effective uid of the calling user and toggles          *)
(* CAP_DAC_OVERRIDE / CAP_CHOWN in its effective set.  The build without    *)
(* LUACALLOUTS is modelled: the path prefix is always empty.                *)
(*                                                                          *)
(* One invocation of a client program is one process: it runs the           *)
(* constructor and then exactly one of allocate / release / restore.        *)
(* Invocations do not overlap in Spec; two of them run at the same time in  *)
(* SpecRace.  Every system call and every raise_cap / lower_cap is one      *)
(* step, so that the intermediate states of the file system and of the      *)
(* effective capability set are states of the model.                        *)
(***************************************************************************)
EXTENDS Integers, Sequences, FiniteSets

\* ------------------------------------------------------------------ bounds
MaxOps == 2
MaxTime == 1

\* ------------------------------------------------- the world around the code
Users == {"root", "alice", "bob"}
Names == {"x"}
NoUser == ""
Filesystems == {"scratch"}

Uid(u) == CASE u = "root" -> 0 [] u = "alice" -> 1001 [] OTHER -> 1002
Gid(u) == CASE u = "root" -> 0 [] OTHER -> 100
PrimaryGroup(u) == CASE u = "root" -> "root" [] OTHER -> "users"
\* the group names getgrouplist/getgrgid deliver for the user, in list order
GroupNames(u) ==
    CASE u = "root" -> <<"root">>
      [] u = "alice" -> <<"users", "staff">>
      [] OTHER -> <<"users">>
\* numeric ids of the groups the user is a member of
GidsOf(u) == CASE u = "root" -> {0} [] u = "alice" -> {100, 200} [] OTHER -> {100}

CAP_DAC_OVERRIDE == "CAP_DAC_OVERRIDE"
CAP_CHOWN == "CAP_CHOWN"

\* how a process ends: return from main, exit(-1), exit(1), exit(4), or
\* std::terminate after an exception nothing catches
Running == "running"
ExitOk == "return"
ExitFail == "exit(-1)"
ExitTarget == "exit(1)"
ExitAcl == "exit(4)"
ExitAbort == "terminate"

\* --------------------------------------------------------------- /etc/ws.conf
DbUid == 85
DbGid == 85
Absent == -1
Spaces(fs) == <<"a">>
ConfigDefault == "scratch"

\* the userdefault / groupdefault lists of the file systems of a file that
\* names no default user and no default group
NoDefaults == [fs \in Filesystems |-> <<>>]

\* the configurations an invocation may find in /etc/ws.conf and
\* ws_private.conf: the ACLs of the file system, the global and the per file
\* system limits, the userexceptions of one user, the global default file
\* system and the userdefault / groupdefault lists of each file system
Configs ==
    { [user_acl |-> acl[1], group_acl |-> acl[2],
       duration |-> 1, maxextensions |-> 1,
       fs_duration |-> 2, fs_maxextensions |-> 2,
       ux_user |-> "bob", ux_duration |-> 3, ux_maxextensions |-> 1,
       default |-> ConfigDefault,
       userdefault |-> NoDefaults, groupdefault |-> NoDefaults] :
      acl \in {<< <<>>, <<>> >>, << <<"bob">>, <<"staff">> >>, << <<"bob">>, <<>> >>} }
NoConfig == [user_acl |-> <<>>, group_acl |-> <<>>,
             duration |-> 0, maxextensions |-> 0,
             fs_duration |-> Absent, fs_maxextensions |-> Absent,
             ux_user |-> "", ux_duration |-> Absent, ux_maxextensions |-> Absent,
             default |-> "", userdefault |-> <<>>, groupdefault |-> <<>>]

Durations == {3}
Reminders == {0}
MailAddresses == {""}

\* ------------------------------------------------------------------- state
VARIABLES
    wsdirs,     \* workspace directories: <<space, ownerpart, name>> -> dir
    trashdirs,  \* directories under <space>/<deleted>/: <<space, tag>> -> dir
    recs,       \* live record files: <<fs, owner, name>> -> file
    trashrecs,  \* record files under <database>/<deleted>/: <<fs, tag>> -> file
    now,        \* time(NULL)
    nops,       \* number of invocations started
    inv,        \* the running invocation (process), see IdleInv
    created,    \* history: live record -> what the creating allocate passed to WsDB
    waiting     \* the processes that are not on the processor, see SpecRace

vars == <<wsdirs, trashdirs, recs, trashrecs, now, nops, inv, created, waiting>>

NoKey == <<>>
NoPath == <<>>
NoTag == <<>>
NoData == [workspace |-> NoPath, expiration |-> 0, extensions |-> 0,
           acctcode |-> "", reminder |-> 0, mailaddress |-> ""]

IdleInv ==
    [pc |-> "idle", op |-> "none", caller |-> NoUser, name |-> "",
     ext |-> FALSE, reminder |-> 0, mail |-> "",
     fsopt |-> "", reqdur |-> 0,
     tname |-> NoTag, target |-> "", tuser |-> NoUser,
     raised |-> {}, capErr |-> "none", privAfterErr |-> FALSE,
     config |-> NoConfig, hasPrivate |-> FALSE, warn |-> FALSE,
     username |-> NoUser, filesystem |-> "", duration |-> 0, maxextensions |-> 0,
     acctcode |-> "",
     dbfile |-> NoKey, wsdir |-> NoPath, extension |-> 0, expiration |-> 0,
     path |-> "none", wdata |-> NoData, wchownfail |-> FALSE,
     stamp |-> 0, targetwsdir |-> NoPath,
     out |-> NoPath, code |-> Running]

\* ------------------------------------------------------- partial functions
SeqToSet(s) == {s[i] : i \in 1..Len(s)}
Put(f, k, v) == [x \in (DOMAIN f) \cup {k} |-> IF x = k THEN v ELSE f[x]]
Del(f, k) == [x \in (DOMAIN f) \ {k} |-> f[x]]
Has(f, k) == k \in DOMAIN f

\* The file system an invocation starts from: either nothing has been
\* allocated yet, or alice has allocated x, released it and allocated it
\* again (ws_allocate x; ws_release x; ws_allocate x at time 0, every call
\* succeeding), which leaves one trashed and one live generation of alice-x.
AliceDir == [owner |-> 1001, group |-> 100, mode |-> "0700", sub |-> {}]
AliceFile ==
    [data |-> [workspace |-> <<"a", "", "x">>, expiration |-> 2 * 24 * 3600,
               extensions |-> 2, acctcode |-> "users", reminder |-> 0,
               mailaddress |-> ""],
     owner |-> DbUid, group |-> DbGid]

InitEmpty ==
    /\ wsdirs = <<>>
    /\ trashdirs = <<>>
    /\ recs = <<>>
    /\ trashrecs = <<>>
    /\ created = <<>>

InitUsed ==
    /\ wsdirs = Put(<<>>, <<"a", "", "x">>, AliceDir)
    /\ trashdirs = Put(<<>>, <<"a", <<"alice", "x", 0>> >>, AliceDir)
    /\ recs = Put(<<>>, <<"scratch", "alice", "x">>, AliceFile)
    /\ trashrecs = Put(<<>>, <<"scratch", <<"alice", "x", 0>> >>, AliceFile)
    /\ created = Put(<<>>, <<"scratch", "alice", "x">>,
                     [wsdir |-> <<"a", "", "x">>, extensions |-> 2, by |-> "alice"])

Init ==
    /\ InitEmpty \/ InitUsed
    /\ now = 0
    /\ nops = 0
    /\ inv = IdleInv
    /\ waiting = <<>>

fsvars == <<wsdirs, trashdirs, recs, trashrecs>>

\* --------------------------------------------------------- capabilities
\* the effective capability set after a successful cap_set_proc
raise_cap(raised, cap) == raised \cup {cap}
lower_cap(raised, cap) == raised \ {cap}
\* cap_init() clears every flag; only CAP_PERMITTED is set afterwards
drop_cap(raised) == {}

\* a step of the code that is not a capability call: records whether it runs
\* after a failed raise_cap / lower_cap (both only print a message)
AfterErr(i, privileged) ==
    \/ i.privAfterErr
    \/ (i.capErr = "raise" /\ privileged)
    \/ i.capErr = "lower"

Step(i, to, privileged) ==
    [i EXCEPT !.pc = to, !.privAfterErr = AfterErr(i, privileged)]

\* the process ends: exit(code), or std::terminate
Exit(i, code, privileged) ==
    [i EXCEPT !.pc = "exit", !.code = code,
              !.privAfterErr = @ \/ (i.capErr # "none" /\ privileged)]

\* raise_cap(cap) at program point `from`, cap_set_proc succeeding
RaiseAt(from, cap, to) ==
    /\ inv.pc = from
    /\ inv' = [Step(inv, to, FALSE) EXCEPT !.raised = raise_cap(@, cap)]
    /\ UNCHANGED <<fsvars, now, nops, created, waiting>>

\* lower_cap(cap, dbuid) at program point `from`, cap_set_proc succeeding
LowerAt(from, cap, to) ==
    /\ inv.pc = from
    /\ inv' = [Step(inv, to, FALSE) EXCEPT !.raised = lower_cap(@, cap)]
    /\ UNCHANGED <<fsvars, now, nops, created, waiting>>

\* ------------------------------------------------------------- validate
\* std::find(acl.begin(), acl.end(), v) != acl.end()
Find_any(acl, v) == TRUE
Find(acl, v) == \E i \in 1..Len(acl) : acl[i] = v

\* BOOST_FOREACH(string grp, groupnames) { if(find(group_acl, grp)) { userok=true; break; } }
RECURSIVE GroupLoop(_, _, _, _)
GroupLoop(groupnames, i, group_acl, userok) ==
    IF i > Len(groupnames) THEN userok
    ELSE IF Find(group_acl, groupnames[i]) THEN TRUE
    ELSE GroupLoop(groupnames, i + 1, group_acl, userok)

\* the ACL check of validate: the value of userok at "if(!userok)"
checkAcl_nouser(username, groupnames, user_acl, group_acl) ==
    GroupLoop(groupnames, 1, group_acl, ~(Len(user_acl) > 0 \/ Len(group_acl) > 0))
checkAcl(username, groupnames, user_acl, group_acl) ==
    LET userok0 == ~(Len(user_acl) > 0 \/ Len(group_acl) > 0)
        userok1 == GroupLoop(groupnames, 1, group_acl, userok0)
    IN  IF Find(user_acl, username) THEN TRUE ELSE userok1

\* the top level key validate reads the default lists from (lines 384, 388):
\* "workspaces." with a trailing dot; the files have the key "workspaces"
DefaultsKey == "workspaces."

\* config[key][fs][list].as<vector<string> >(): the list of the file, or
\* nothing when the lookup throws into the catch (...) of the loop, as it
\* does for every key other than "workspaces"
DefaultList(cfg, key, fs, list) ==
    IF key = "workspaces" /\ fs \in DOMAIN cfg[list] THEN cfg[list][fs] ELSE <<>>

\* the map<string, string> the loop over config["workspaces"] fills: each
\* name of a list is mapped to the file system of that list (the
\* configurations of the model list a name under one file system only)
DefaultsMap(cfg, list) ==
    LET listed(fs) == SeqToSet(DefaultList(cfg, DefaultsKey, fs, list))
        names == UNION {listed(fs) : fs \in DOMAIN cfg[list]}
    IN  [u \in names |-> CHOOSE fs \in DOMAIN cfg[list] : u \in listed(fs)]

UserDefaults(cfg) == DefaultsMap(cfg, "userdefault")
GroupsDefaults(cfg) == DefaultsMap(cfg, "groupdefault")

RECURSIVE GroupDefaultLoop(_, _, _)
GroupDefaultLoop(cfg, groupnames, i) ==
    IF i > Len(groupnames) THEN cfg.default
    ELSE IF Has(GroupsDefaults(cfg), groupnames[i])
         THEN GroupsDefaults(cfg)[groupnames[i]]
    ELSE GroupDefaultLoop(cfg, groupnames, i + 1)

resolveFilesystem(cfg, username, fsopt) ==
    IF fsopt # "" THEN fsopt
    ELSE IF Has(UserDefaults(cfg), username) THEN UserDefaults(cfg)[username]
    ELSE IF Has(GroupsDefaults(cfg), PrimaryGroup(username))
         THEN GroupsDefaults(cfg)[PrimaryGroup(username)]
    ELSE GroupDefaultLoop(cfg, GroupNames(username), 1)

\* userexception > filesystem value > global value
Layered(ux, fsv, glob) ==
    IF ux # Absent THEN ux ELSE IF fsv # Absent THEN fsv ELSE glob

ConfigDuration(cfg, hasPrivate, username) ==
    Layered(IF hasPrivate /\ cfg.ux_user = username THEN cfg.ux_duration ELSE Absent,
            cfg.fs_duration, cfg.duration)

ConfigMaxExtensions(cfg, hasPrivate, username) ==
    Layered(IF hasPrivate /\ cfg.ux_user = username THEN cfg.ux_maxextensions ELSE Absent,
            cfg.fs_maxextensions, cfg.maxextensions)

\* "if we are root, we ignore the limits"
resolveDuration_rootclamped(uid, requested, configduration) ==
    IF requested > configduration THEN configduration ELSE requested
resolveDuration(uid, requested, configduration) ==
    IF uid # 0 /\ requested > configduration THEN configduration ELSE requested

\* cerr << "Error: Duration longer than allowed for this workspace" ...:
\* the message of the clamp, after which validate goes on
DurationWarning(uid, requested, configduration) ==
    uid # 0 /\ requested > configduration

\* --------------------------------------------------------- an invocation
AllocateArgs ==
    [name : Names, ext : BOOLEAN, uopt : {NoUser, "alice", "bob"},
     reminder : Reminders, mail : MailAddresses]

\* a client program starts: ws_allocate, ws_release or ws_restore
Start ==
    /\ inv.pc = "idle"
    /\ nops < MaxOps
    /\ nops' = nops + 1
    /\ \E caller \in Users, op \in {"allocate", "release", "restore"} :
          inv' = [IdleInv EXCEPT !.pc = "ctor_conf", !.op = op, !.caller = caller]
    /\ UNCHANGED <<fsvars, now, created, waiting>>

\* config = YAML::LoadFile("/etc/ws.conf"); exit(-1) on BadFile; drop_cap.
\* What the file holds is looked at in validate only and is chosen there.
CtorConf ==
    /\ inv.pc = "ctor_conf"
    /\ \/ inv' = [Step(inv, "ctor_raise1", FALSE) EXCEPT !.raised = drop_cap(@)]
       \/ inv' = Exit(inv, ExitFail, FALSE)
    /\ UNCHANGED <<fsvars, now, nops, created, waiting>>

CtorRaise1 == RaiseAt("ctor_raise1", CAP_DAC_OVERRIDE, "ctor_raise2")
CtorRaise2 == RaiseAt("ctor_raise2", CAP_DAC_OVERRIDE, "ctor_private")

\* userconfig = YAML::LoadFile("ws_private.conf"): loaded, or BadFile (caught
\* and ignored), or any other exception of the parser, which nothing catches
CtorPrivate ==
    /\ inv.pc = "ctor_private"
    /\ \/ inv' = [Step(inv, "ctor_lower", FALSE) EXCEPT !.hasPrivate = TRUE]
       \/ inv' = Step(inv, "ctor_lower", FALSE)
       \/ inv' = Exit(inv, ExitAbort, FALSE)
    /\ UNCHANGED <<fsvars, now, nops, created, waiting>>

CtorLower == LowerAt("ctor_lower", CAP_DAC_OVERRIDE, "ctor_validate")

FirstPc(op) ==
    CASE op = "allocate" -> "alloc_begin"
      [] op = "release" -> "rel_begin"
      [] OTHER -> "res_begin"

\* the command line and the configuration go out of use once validate has
\* resolved filesystem, duration and maxextensions from them
Validated(i) ==
    [i EXCEPT !.config = NoConfig, !.hasPrivate = FALSE, !.fsopt = "", !.reqdur = 0,
              !.warn = FALSE]

\* username = getusername(); validate(...) with the filesystem option fsopt
\* ("" when not given), the duration option reqdur and the configuration c
CtorValidateWith(c, fsopt, reqdur) ==
    /\ inv.pc = "ctor_validate"
    /\ LET username == inv.caller
           userok == fsopt = "" \/
                     checkAcl(username, GroupNames(username),
                              c.user_acl, c.group_acl)
           filesystem == resolveFilesystem(c, username, fsopt)
           i0 == [inv EXCEPT !.config = c, !.fsopt = fsopt, !.reqdur = reqdur,
                             !.username = username]
       IN  IF ~userok
           THEN inv' = Exit(i0, ExitAcl, FALSE)
           ELSE inv' = [Step(i0, FirstPc(inv.op), FALSE) EXCEPT
                           !.filesystem = filesystem,
                           !.acctcode = PrimaryGroup(username),
                           !.duration = IF inv.op = "allocate"
                               THEN resolveDuration(Uid(inv.caller), reqdur,
                                        ConfigDuration(c, inv.hasPrivate, username))
                               ELSE @,
                           !.maxextensions = IF inv.op = "allocate"
                               THEN ConfigMaxExtensions(c, inv.hasPrivate, username)
                               ELSE @,
                           !.warn = inv.op = "allocate" /\
                               DurationWarning(Uid(inv.caller), reqdur,
                                   ConfigDuration(c, inv.hasPrivate, username))]
    /\ UNCHANGED <<fsvars, now, nops, created, waiting>>

CtorValidate ==
    \E c \in Configs, fsopt \in Filesystems \cup {""} :
        IF inv.op = "allocate"
        THEN \E d \in Durations : CtorValidateWith(c, fsopt, d)
        ELSE CtorValidateWith(c, fsopt, 0)

\* ------------------------------------------- validate on its own
\* validate as a function of the configuration files, the identity and the
\* command line: a process stands before the call of validate (line 125)
\* with any of these configurations, and the call is the only step
ValidateFilesystems == {"home", "project", "scratch"}
ValidateDurations == {1, 3, 5}
ValidateConfigs ==
    { [user_acl |-> <<>>, group_acl |-> <<>>,
       duration |-> 1, maxextensions |-> 1,
       fs_duration |-> fsd, fs_maxextensions |-> fsm,
       ux_user |-> "bob", ux_duration |-> uxd, ux_maxextensions |-> uxm,
       default |-> ConfigDefault,
       userdefault |-> [fs \in ValidateFilesystems |->
                           IF fs = "home" THEN ul ELSE <<>>],
       groupdefault |-> [fs \in ValidateFilesystems |->
                           IF fs = "project" THEN gl ELSE <<>>]] :
      fsd \in {Absent, 2}, fsm \in {Absent, 2},
      uxd \in {Absent, 4}, uxm \in {Absent, 0},
      ul \in {<<>>, <<"alice">>},
      gl \in {<<>>, <<"users">>, <<"staff">>} }

InitValidate ==
    /\ InitEmpty
    /\ now = 0
    /\ nops = 1
    /\ waiting = <<>>
    /\ \E caller \in Users, op \in {"allocate", "release"},
          c \in ValidateConfigs, fsopt \in {"", "home"},
          d \in ValidateDurations, private \in BOOLEAN :
          inv = [IdleInv EXCEPT !.pc = "ctor_validate", !.op = op,
                                !.caller = caller, !.config = c,
                                !.fsopt = fsopt, !.hasPrivate = private,
                                !.reqdur = IF op = "allocate" THEN d ELSE 0]

ValidateCall == CtorValidateWith(inv.config, inv.fsopt, inv.reqdur)

NextValidate == ValidateCall

SpecValidate == InitValidate /\ [][NextValidate]_vars

\* ------------------------------------------------------- file system calls
NewDir(caller) ==
    [owner |-> Uid(caller), group |-> Gid(caller), mode |-> "0775", sub |-> {}]

\* fs::create_directories(wsdir) under umask 0002: an existing directory is
\* left as it is, a new one belongs to the effective uid of the process
create_directories(dirs, p, caller) ==
    IF Has(dirs, p) THEN dirs ELSE Put(dirs, p, NewDir(caller))

\* chown(path, uid, gid) can succeed with CAP_CHOWN effective or when it
\* leaves the owner as it is
MayChown(f, k, i, uid) ==
    /\ Has(f, k)
    /\ (CAP_CHOWN \in i.raised \/ f[k].owner = uid)

chown(f, k, uid, gid) == [f EXCEPT ![k].owner = uid, ![k].group = gid]

\* chmod(path, S_IRUSR|S_IWUSR|S_IXUSR) is allowed to the owner of the path
\* (CAP_DAC_OVERRIDE does not lift that restriction)
MayChmod(dirs, p, i) ==
    /\ Has(dirs, p)
    /\ dirs[p].owner = Uid(i.caller)

chmod(dirs, p) == [dirs EXCEPT ![p].mode = "0700"]

\* unlink(2) of a directory fails (EISDIR) and removes nothing
unlink_dir(dirs, p) == dirs

\* access(path, R_OK|W_OK|X_OK) with the real uid and groups of the caller
access(dirs, p, caller) ==
    /\ Has(dirs, p)
    /\ \/ Uid(caller) = 0
       \/ dirs[p].owner = Uid(caller)
       \/ (dirs[p].group \in GidsOf(caller) /\ dirs[p].mode = "0775")

\* ------------------------------------------------------------------ WsDB
\* WsDB::read_dbfile: the fields a WsDB object holds after loading the file
read_dbfile(file) ==
    [workspace |-> file.data.workspace, expiration |-> file.data.expiration,
     extensions |-> file.data.extensions, acctcode |-> file.data.acctcode]

\* the YAML node WsDB::write_dbfile emits
entry_offbyone(wsdir, expiration, extensions, acctcode, reminder, mailaddress) ==
    [workspace |-> wsdir, expiration |-> expiration, extensions |-> extensions + 1,
     acctcode |-> acctcode, reminder |-> reminder, mailaddress |-> mailaddress]
entry(wsdir, expiration, extensions, acctcode, reminder, mailaddress) ==
    [workspace |-> wsdir, expiration |-> expiration, extensions |-> extensions,
     acctcode |-> acctcode, reminder |-> reminder, mailaddress |-> mailaddress]

\* "fout << entry" writes every value as a YAML scalar: a number as its
\* decimal digits, a string as it is (quoted when it is empty)
RECURSIVE Digits(_)
Digits(n) == IF n < 10 THEN <<n>> ELSE Digits(n \div 10) \o <<n % 10>>

EmitInt(n) ==
    [style |-> "plain", sign |-> IF n < 0 THEN -1 ELSE 1,
     text |-> Digits(IF n < 0 THEN -n ELSE n)]
EmitString(str) ==
    [style |-> IF str = "" THEN "quoted" ELSE "plain", sign |-> 1, text |-> str]

Emit(e) ==
    [workspace |-> EmitString(e.workspace), expiration |-> EmitInt(e.expiration),
     extensions |-> EmitInt(e.extensions), acctcode |-> EmitString(e.acctcode),
     reminder |-> EmitInt(e.reminder), mailaddress |-> EmitString(e.mailaddress)]

\* entry[key].as<int>(), .as<long>() and .as<string>() on a loaded file
RECURSIVE DigitsValue(_, _)
DigitsValue(ds, acc) ==
    IF ds = <<>> THEN acc ELSE DigitsValue(Tail(ds), acc * 10 + Head(ds))

AsInt(scalar) == scalar.sign * DigitsValue(scalar.text, 0)
AsString(scalar) == scalar.text

\* the values YAML::LoadFile and as<>() deliver for a file write_dbfile wrote
YamlFile(e) ==
    LET text == Emit(e)
    IN  [workspace |-> AsString(text.workspace), expiration |-> AsInt(text.expiration),
         extensions |-> AsInt(text.extensions), acctcode |-> AsString(text.acctcode),
         reminder |-> AsInt(text.reminder), mailaddress |-> AsString(text.mailaddress)]

\* files below the record directory, which belongs to the system account,
\* can be written and removed only with CAP_DAC_OVERRIDE effective (after
\* drop_cap the effective set of root is empty as well)
MayWrite(i) == CAP_DAC_OVERRIDE \in i.raised

\* ofstream fout(filename); fout << entry: an existing file keeps its owner,
\* a new one belongs to the effective uid of the process
ofstream(files, k, data, caller) ==
    IF Has(files, k) THEN [files EXCEPT ![k].data = data]
    ELSE Put(files, k, [data |-> data, owner |-> Uid(caller), group |-> Gid(caller)])

\* WsDB::use_extension(expiration): one extension is used up and the
\* expiration replaced; without a remaining extension nothing is written
CanExtend(extensions) == extensions > 0
use_extension(data, expiration) ==
    [data EXCEPT !.expiration = expiration, !.extensions = @ - 1]

\* ---------------------------------------------------------------- allocate
\* the owner part of the record name (lines 152-164)
DbOwner(ext, uopt, username, uid) ==
    IF ext /\ uopt # NoUser THEN uopt
    ELSE IF uopt # NoUser /\ uid = 0 THEN uopt
    ELSE username

\* if(extensionflag) on an existing entry (line 173)
UseExtension_ignored(extensionflag) == TRUE
UseExtension(extensionflag) == extensionflag

\* "we allow a user to specify -u -x together ..." (line 175)
NotOwner_inverted(uopt, username, uid) ==
    uopt # NoUser /\ uopt = username /\ uid # 0
NotOwner(uopt, username, uid) ==
    uopt # NoUser /\ uopt # username /\ uid # 0

\* the owner part of the directory name (lines 211-215)
DirOwner(uopt, username, uid) ==
    IF uopt # NoUser /\ uopt # username /\ uid # 0 THEN username ELSE uopt

Expiration(t, duration) == t + duration * 24 * 3600

\* allocate(name, extensionflag, reminder, mailaddress, user_option) up to
\* the first capability call
AllocBeginWith(a) ==
    /\ inv.pc = "alloc_begin"
    /\ LET uid == Uid(inv.caller)
           dbfilename == <<inv.filesystem,
                           DbOwner(a.ext, a.uopt, inv.username, uid), a.name>>
           i0 == [Validated(inv) EXCEPT !.dbfile = dbfilename, !.name = a.name,
                             !.ext = a.ext,
                             !.reminder = a.reminder, !.mail = a.mail]
       IN  IF a.ext /\ a.uopt # NoUser /\ ~Has(recs, dbfilename)
           THEN inv' = Exit(i0, ExitFail, FALSE)
           ELSE IF Has(recs, dbfilename)
           THEN LET dbentry == read_dbfile(recs[dbfilename])
                    i1 == [i0 EXCEPT !.wsdir = dbentry.workspace,
                                     !.extension = dbentry.extensions,
                                     !.expiration = dbentry.expiration]
                IN  IF UseExtension(a.ext)
                    THEN IF NotOwner(a.uopt, inv.username, uid)
                            /\ ~access(wsdirs, dbentry.workspace, inv.caller)
                         THEN inv' = Exit(i1, ExitFail, FALSE)
                         ELSE IF ~CanExtend(dbentry.extensions)
                         THEN inv' = Exit(i1, ExitFail, FALSE)
                         ELSE LET d == use_extension(
                                        entry(dbentry.workspace, dbentry.expiration,
                                              dbentry.extensions, dbentry.acctcode,
                                              recs[dbfilename].data.reminder,
                                              recs[dbfilename].data.mailaddress),
                                        Expiration(now, inv.duration))
                              IN  inv' = [Step(i1, "w_raise1", FALSE) EXCEPT
                                            !.path = "extend", !.wdata = d,
                                            !.extension = d.extensions]
                    ELSE inv' = [Step(i1, "print", FALSE) EXCEPT !.path = "reuse"]
           ELSE \E r \in 1..Len(Spaces(inv.filesystem)) :
                    inv' = [Step(i0, "mk_raise", FALSE) EXCEPT
                               !.path = "create",
                               !.wsdir = <<Spaces(inv.filesystem)[r],
                                           DirOwner(a.uopt, inv.username, uid),
                                           a.name>>]
    /\ UNCHANGED <<fsvars, now, nops, created, waiting>>

\* allocate behind a lock on the record name, which the code does not take:
\* the call fails while another process is creating the same record
AllocBegin_serialized ==
    IF \E i \in 1..Len(waiting) :
           waiting[i].path = "create" /\ waiting[i].pc \notin {"done", "exit"}
    THEN /\ inv.pc = "alloc_begin"
         /\ \E a \in AllocateArgs :
               inv' = Exit([Validated(inv) EXCEPT
                               !.name = a.name, !.ext = a.ext,
                               !.dbfile = <<inv.filesystem,
                                            DbOwner(a.ext, a.uopt, inv.username,
                                                    Uid(inv.caller)), a.name>>],
                           ExitFail, FALSE)
         /\ UNCHANGED <<fsvars, now, nops, created, waiting>>
    ELSE \E a \in AllocateArgs : AllocBeginWith(a)
AllocBegin == \E a \in AllocateArgs : AllocBeginWith(a)

MkRaise == RaiseAt("mk_raise", CAP_DAC_OVERRIDE, "mk_dir")

\* fs::create_directories(wsdir) inside try { } catch (...)
MkDir ==
    /\ inv.pc = "mk_dir"
    /\ \/ /\ wsdirs' = create_directories(wsdirs, inv.wsdir, inv.caller)
          /\ inv' = Step(inv, "mk_lower", TRUE)
       \/ /\ wsdirs' = wsdirs
          /\ inv' = Step(inv, "mk_catch_lower", TRUE)
    /\ UNCHANGED <<trashdirs, recs, trashrecs, now, nops, created, waiting>>

MkLower == LowerAt("mk_lower", CAP_DAC_OVERRIDE, "ch_raise")
MkCatchLower == LowerAt("mk_catch_lower", CAP_DAC_OVERRIDE, "exit_fail")

\* cerr << "Error: ..."; exit(-1);
ExitFailStep ==
    /\ inv.pc = "exit_fail"
    /\ inv' = Exit(inv, ExitFail, FALSE)
    /\ UNCHANGED <<fsvars, now, nops, created, waiting>>

ChRaise == RaiseAt("ch_raise", CAP_CHOWN, "ch_chown")

\* chown(wsdir, getuid(), getgid())
ChChown ==
    /\ inv.pc = "ch_chown"
    /\ \/ /\ MayChown(wsdirs, inv.wsdir, inv, Uid(inv.caller))
          /\ wsdirs' = chown(wsdirs, inv.wsdir, Uid(inv.caller), Gid(inv.caller))
          /\ inv' = Step(inv, "ch_lower", TRUE)
       \/ /\ wsdirs' = wsdirs
          /\ inv' = Step(inv, "ch_fail_lower", TRUE)
    /\ UNCHANGED <<trashdirs, recs, trashrecs, now, nops, created, waiting>>

ChLower == LowerAt("ch_lower", CAP_CHOWN, "cm_raise")
ChFailLower == LowerAt("ch_fail_lower", CAP_CHOWN, "rollback")

\* unlink(wsdir.c_str()); exit(-1);
Rollback ==
    /\ inv.pc = "rollback"
    /\ wsdirs' = unlink_dir(wsdirs, inv.wsdir)
    /\ inv' = Exit(inv, ExitFail, TRUE)
    /\ UNCHANGED <<trashdirs, recs, trashrecs, now, nops, created, waiting>>

CmRaise == RaiseAt("cm_raise", CAP_DAC_OVERRIDE, "cm_chmod")

\* chmod(wsdir, S_IRUSR | S_IWUSR | S_IXUSR)
CmChmod ==
    /\ inv.pc = "cm_chmod"
    /\ \/ /\ MayChmod(wsdirs, inv.wsdir, inv)
          /\ wsdirs' = chmod(wsdirs, inv.wsdir)
          /\ inv' = Step(inv, "cm_lower", TRUE)
       \/ /\ wsdirs' = wsdirs
          /\ inv' = Step(inv, "cm_fail_lower", TRUE)
    /\ UNCHANGED <<trashdirs, recs, trashrecs, now, nops, created, waiting>>

CmLower == LowerAt("cm_lower", CAP_DAC_OVERRIDE, "alloc_record")
CmFailLower == LowerAt("cm_fail_lower", CAP_DAC_OVERRIDE, "rollback")

\* extension = maxextensions; expiration = time(NULL)+duration*24*3600;
\* WsDB dbentry(dbfilename, wsdir, expiration, extension, acctcode, ...)
AllocRecord ==
    /\ inv.pc = "alloc_record"
    /\ LET expiration == Expiration(now, inv.duration)
       IN  inv' = [Step(inv, "w_raise1", FALSE) EXCEPT
                      !.extension = inv.maxextensions,
                      !.expiration = expiration,
                      !.wdata = entry(inv.wsdir, expiration, inv.maxextensions,
                                      inv.acctcode, inv.reminder, inv.mail)]
    /\ created' = Put(created, inv.dbfile,
                      [wsdir |-> inv.wsdir, extensions |-> inv.maxextensions,
                       by |-> inv.caller])
    /\ UNCHANGED <<fsvars, now, nops, waiting>>

\* ------------------------------------------------------ WsDB::write_dbfile
WRaise1 == RaiseAt("w_raise1", CAP_DAC_OVERRIDE, "w_open")

\* ofstream fout(filename); fout << entry; fout.close();  (no error check:
\* without the privilege nothing is written and the code goes on)
WOpen ==
    /\ inv.pc = "w_open"
    /\ recs' = IF MayWrite(inv)
               THEN ofstream(recs, inv.dbfile, YamlFile(inv.wdata), inv.caller)
               ELSE recs
    /\ inv' = Step(inv, "w_lower1", TRUE)
    /\ UNCHANGED <<wsdirs, trashdirs, trashrecs, now, nops, created, waiting>>

WLower1 == LowerAt("w_lower1", CAP_DAC_OVERRIDE, "w_raise2")
WRaise2 == RaiseAt("w_raise2", CAP_CHOWN, "w_chown")

\* if(chown(filename, dbuid, dbgid)) { lower_cap; cerr << "Error: ..."; }
WChown ==
    /\ inv.pc = "w_chown"
    /\ \/ /\ MayChown(recs, inv.dbfile, inv, DbUid)
          /\ recs' = chown(recs, inv.dbfile, DbUid, DbGid)
          /\ inv' = Step(inv, "w_lower2", TRUE)
       \/ /\ recs' = recs
          /\ inv' = [Step(inv, "w_fail_lower", TRUE) EXCEPT !.wchownfail = TRUE]
    /\ UNCHANGED <<wsdirs, trashdirs, trashrecs, now, nops, created, waiting>>

WFailLower == LowerAt("w_fail_lower", CAP_CHOWN, "w_lower2")
WLower2 == LowerAt("w_lower2", CAP_CHOWN, "print")

\* cout << wsdir << endl; (and the remaining extensions and days on cerr)
PrintResult ==
    /\ inv.pc = "print"
    /\ inv' = [Step(inv, "done", FALSE) EXCEPT !.out = inv.wsdir, !.code = ExitOk]
    /\ UNCHANGED <<fsvars, now, nops, created, waiting>>

\* ------------------------------------------- a record written and read
\* WsDB::write_dbfile followed by WsDB::read_dbfile of the same file: the
\* six values written, and the values the variables of the reader hold
\* before the call
RecordPaths == {<<"a", "", "x">>, <<"a", "alice", "x">>}
RecordExpirations == {0, 86400, 172801}
RecordExtensions == {0, 2, 10}
RecordAcctcodes == {"", "users"}
RecordReminders == {0, 7}
RecordMailAddresses == {"", "alice@example.org"}

InitRecord ==
    /\ InitEmpty
    /\ now = 0
    /\ nops = 1
    /\ waiting = <<>>
    /\ \E w \in RecordPaths, e \in RecordExpirations, x \in RecordExtensions,
          a \in RecordAcctcodes, r \in RecordReminders, m \in RecordMailAddresses,
          r0 \in RecordReminders, m0 \in RecordMailAddresses :
          inv = [IdleInv EXCEPT !.pc = "w_raise1", !.op = "allocate",
                                !.caller = "alice", !.username = "alice",
                                !.path = "create",
                                !.dbfile = <<"scratch", "alice", "x">>,
                                !.wdata = entry(w, e, x, a, r, m),
                                !.reminder = r0, !.mail = m0]

\* read_dbfile(filename, wsdir, expiration, extensions, acctcode, reminder,
\* mailaddress): the first four are references and receive the values of
\* the file; reminder and mailaddress are passed by value, so that the
\* assignments of lines 96-97 do not reach the variables of the caller
RecordRead ==
    /\ inv.pc = "print"
    /\ Has(recs, inv.dbfile)
    /\ LET dbentry == read_dbfile(recs[inv.dbfile])
       IN  inv' = [Step(inv, "read_done", FALSE) EXCEPT
                      !.wsdir = dbentry.workspace,
                      !.expiration = dbentry.expiration,
                      !.extension = dbentry.extensions,
                      !.acctcode = dbentry.acctcode]
    /\ UNCHANGED <<fsvars, now, nops, created, waiting>>

NextRecord ==
    \/ WRaise1 \/ WOpen \/ WLower1 \/ WRaise2 \/ WChown \/ WFailLower \/ WLower2
    \/ RecordRead

SpecRecord == InitRecord /\ [][NextRecord]_vars

\* ----------------------------------------------------------- Workspace::mv
\* the results of mv(source, target): fork() fails and 0 is returned, or
\* /bin/mv runs and its exit status is returned
MvResults == {"nofork", "moved", "failed"}
MvReturn(r) == IF r = "failed" THEN 1 ELSE 0

BaseName(wsdir) == <<wsdir[2], wsdir[3], -1>>

\* ----------------------------------------------------------------- release
TrashTag(username, name, timestamp) == <<username, name, timestamp>>

RelBeginWith(name) ==
    /\ inv.pc = "rel_begin"
    /\ LET dbfilename == <<inv.filesystem, inv.username, name>>
       IN  IF Has(recs, dbfilename)
           THEN inv' = [Step(Validated(inv), "rel_raise1", FALSE) EXCEPT
                           !.name = name,
                           !.dbfile = dbfilename,
                           !.wsdir = read_dbfile(recs[dbfilename]).workspace,
                           !.stamp = now]
           ELSE inv' = Exit([Validated(inv) EXCEPT !.name = name, !.dbfile = dbfilename],
                            ExitFail, FALSE)
    /\ UNCHANGED <<fsvars, now, nops, created, waiting>>

RelBegin == \E name \in Names : RelBeginWith(name)

RelRaise1 == RaiseAt("rel_raise1", CAP_DAC_OVERRIDE, "rel_rename_db")

\* rename(dbfilename, dbtargetname): replaces an existing target file
RelRenameDb ==
    /\ inv.pc = "rel_rename_db"
    /\ LET dbtargetname == <<inv.filesystem,
                             TrashTag(inv.username, inv.name, inv.stamp)>>
       IN  \/ /\ Has(recs, inv.dbfile)
              /\ trashrecs' = Put(trashrecs, dbtargetname, recs[inv.dbfile])
              /\ recs' = Del(recs, inv.dbfile)
              /\ created' = Del(created, inv.dbfile)
              /\ inv' = Step(inv, "rel_lower1", TRUE)
           \/ /\ UNCHANGED <<recs, trashrecs, created>>
              /\ inv' = Step(inv, "rel_fail1_lower", TRUE)
    /\ UNCHANGED <<wsdirs, trashdirs, now, nops, waiting>>

RelFail1Lower == LowerAt("rel_fail1_lower", CAP_DAC_OVERRIDE, "exit_fail")
RelLower1 == LowerAt("rel_lower1", CAP_DAC_OVERRIDE, "rel_raise2")
RelRaise2 == RaiseAt("rel_raise2", CAP_DAC_OVERRIDE, "rel_rename_ws")

WsTarget(i) == <<i.wsdir[1], TrashTag(i.username, i.name, i.stamp)>>

\* rename(wsdir, wstargetname): an existing target must be an empty directory
RelRenameWs ==
    /\ inv.pc = "rel_rename_ws"
    /\ LET wstargetname == WsTarget(inv)
       IN  \/ /\ Has(wsdirs, inv.wsdir)
              /\ Has(trashdirs, wstargetname) => trashdirs[wstargetname].sub = {}
              /\ trashdirs' = Put(trashdirs, wstargetname, wsdirs[inv.wsdir])
              /\ wsdirs' = Del(wsdirs, inv.wsdir)
              /\ inv' = Step(inv, "rel_lower2", TRUE)
           \/ /\ UNCHANGED <<wsdirs, trashdirs>>
              /\ inv' = Step(inv, "rel_mv", TRUE)
    /\ UNCHANGED <<recs, trashrecs, now, nops, created, waiting>>

\* int r = mv(wsdir, wstargetname); if(r!=0) { lower_cap; cerr; exit(-1); }
RelMv ==
    /\ inv.pc = "rel_mv"
    /\ LET wstargetname == WsTarget(inv)
       IN  \E r \in MvResults :
            /\ IF r = "moved"
               THEN /\ Has(wsdirs, inv.wsdir)
                    /\ trashdirs' =
                         IF Has(trashdirs, wstargetname)
                         THEN [trashdirs EXCEPT ![wstargetname].sub =
                                                    @ \cup {BaseName(inv.wsdir)}]
                         ELSE Put(trashdirs, wstargetname, wsdirs[inv.wsdir])
                    /\ wsdirs' = Del(wsdirs, inv.wsdir)
               ELSE UNCHANGED <<wsdirs, trashdirs>>
            /\ inv' = Step(inv, IF MvReturn(r) # 0 THEN "rel_fail2_lower"
                                ELSE "rel_lower2", TRUE)
    /\ UNCHANGED <<recs, trashrecs, now, nops, created, waiting>>

RelFail2Lower == LowerAt("rel_fail2_lower", CAP_DAC_OVERRIDE, "exit_fail")
RelLower2 == LowerAt("rel_lower2", CAP_DAC_OVERRIDE, "return")

\* the operation returns to main, which ends the process with status 0
Return ==
    /\ inv.pc = "return"
    /\ inv' = [Step(inv, "done", FALSE) EXCEPT !.code = ExitOk]
    /\ UNCHANGED <<fsvars, now, nops, created, waiting>>

\* ----------------------------------------------------------------- restore
MissingTag == <<"bob", "x", 0>>
RestoreArgs ==
    [name : {k[2] : k \in DOMAIN trashrecs} \cup {MissingTag},
     target : Names, username : Users]

\* restore(name, target, username)
ResBeginWith(a) ==
    /\ inv.pc = "res_begin"
    /\ LET dbfilename == <<inv.filesystem, a.name>>
           targetdbfilename == <<inv.filesystem, a.username, a.target>>
           i0 == [Validated(inv) EXCEPT !.tname = a.name, !.target = a.target,
                             !.tuser = a.username]
       IN  IF ~Has(recs, targetdbfilename)
           THEN inv' = Exit(i0, ExitTarget, FALSE)
           ELSE LET i1 == [i0 EXCEPT !.targetwsdir =
                              read_dbfile(recs[targetdbfilename]).workspace]
                IN  IF Has(trashrecs, dbfilename)
                    THEN inv' = [Step(i1, "res_raise", FALSE) EXCEPT
                                    !.dbfile = dbfilename,
                                    !.wsdir = read_dbfile(trashrecs[dbfilename]).workspace]
                    ELSE inv' = Step(i1, "return", FALSE)
    /\ UNCHANGED <<fsvars, now, nops, created, waiting>>

ResBegin == \E a \in RestoreArgs : ResBeginWith(a)

ResRaise == RaiseAt("res_raise", CAP_DAC_OVERRIDE, "res_mv")

\* mv(wssourcename, targetwsdir); the result is not looked at
ResMv ==
    /\ inv.pc = "res_mv"
    /\ LET wssourcename == <<inv.wsdir[1], inv.tname>>
       IN  \E r \in MvResults :
            /\ IF r = "moved"
               THEN /\ Has(trashdirs, wssourcename)
                    /\ wsdirs' =
                         IF Has(wsdirs, inv.targetwsdir)
                         THEN [wsdirs EXCEPT ![inv.targetwsdir].sub =
                                                 @ \cup {inv.tname}]
                         ELSE Put(wsdirs, inv.targetwsdir, trashdirs[wssourcename])
                    /\ trashdirs' = Del(trashdirs, wssourcename)
               ELSE UNCHANGED <<wsdirs, trashdirs>>
            /\ inv' = Step(inv, "res_unlink", TRUE)
    /\ UNCHANGED <<recs, trashrecs, now, nops, created, waiting>>

\* unlink(dbfilename)
ResUnlink ==
    /\ inv.pc = "res_unlink"
    /\ trashrecs' = IF MayWrite(inv) THEN Del(trashrecs, inv.dbfile) ELSE trashrecs
    /\ inv' = Step(inv, "res_lower", TRUE)
    /\ UNCHANGED <<wsdirs, trashdirs, recs, now, nops, created, waiting>>

ResLower == LowerAt("res_lower", CAP_DAC_OVERRIDE, "return")

\* ------------------------------------------------------------ environment
\* the process is gone; the next invocation starts from a fresh process
Reap ==
    /\ inv.pc \in {"done", "exit"}
    /\ inv' = IdleInv
    /\ UNCHANGED <<fsvars, now, nops, created, waiting>>

\* the clock advances between invocations
Tick ==
    /\ inv.pc = "idle"
    /\ now < MaxTime
    /\ now' = now + 1
    /\ UNCHANGED <<fsvars, nops, inv, created, waiting>>

Next ==
    \/ Start \/ CtorConf \/ CtorRaise1 \/ CtorRaise2 \/ CtorPrivate
    \/ CtorLower \/ CtorValidate
    \/ AllocBegin \/ MkRaise \/ MkDir \/ MkLower \/ MkCatchLower \/ ExitFailStep
    \/ ChRaise \/ ChChown \/ ChLower \/ ChFailLower \/ Rollback
    \/ CmRaise \/ CmChmod \/ CmLower \/ CmFailLower \/ AllocRecord
    \/ WRaise1 \/ WOpen \/ WLower1 \/ WRaise2 \/ WChown \/ WFailLower \/ WLower2
    \/ PrintResult
    \/ RelBegin \/ RelRaise1 \/ RelRenameDb \/ RelFail1Lower \/ RelLower1
    \/ RelRaise2 \/ RelRenameWs \/ RelMv \/ RelFail2Lower \/ RelLower2 \/ Return
    \/ ResBegin \/ ResRaise \/ ResMv \/ ResUnlink \/ ResLower
    \/ Reap \/ Tick

Spec == Init /\ [][Next]_vars

\* ------------------------------------------- allocate calls only
\* sequences of ws_allocate invocations on a file system that starts without
\* workspaces
StartAllocate ==
    /\ inv.pc = "idle"
    /\ nops < MaxOps
    /\ nops' = nops + 1
    /\ \E caller \in Users :
          inv' = [IdleInv EXCEPT !.pc = "ctor_conf", !.op = "allocate",
                                 !.caller = caller]
    /\ UNCHANGED <<fsvars, now, created, waiting>>

InitAllocate ==
    /\ InitEmpty
    /\ now = 0
    /\ nops = 0
    /\ inv = IdleInv
    /\ waiting = <<>>

NextAllocate ==
    \/ StartAllocate \/ CtorConf \/ CtorRaise1 \/ CtorRaise2 \/ CtorPrivate
    \/ CtorLower \/ CtorValidate
    \/ AllocBegin \/ MkRaise \/ MkDir \/ MkLower \/ MkCatchLower \/ ExitFailStep
    \/ ChRaise \/ ChChown \/ ChLower \/ ChFailLower \/ Rollback
    \/ CmRaise \/ CmChmod \/ CmLower \/ CmFailLower \/ AllocRecord
    \/ WRaise1 \/ WOpen \/ WLower1 \/ WRaise2 \/ WChown \/ WFailLower \/ WLower2
    \/ PrintResult
    \/ Reap \/ Tick

SpecAllocate == InitAllocate /\ [][NextAllocate]_vars

\* ------------------------------------------- failing capability calls
\* the raise_cap and lower_cap calls of the code: program point, next point
RaiseSites ==
    { <<"ctor_raise1", "ctor_raise2">>, <<"ctor_raise2", "ctor_private">>,
      <<"mk_raise", "mk_dir">>, <<"ch_raise", "ch_chown">>,
      <<"cm_raise", "cm_chmod">>, <<"w_raise1", "w_open">>,
      <<"w_raise2", "w_chown">>, <<"rel_raise1", "rel_rename_db">>,
      <<"rel_raise2", "rel_rename_ws">>, <<"res_raise", "res_mv">> }

LowerSites ==
    { <<"ctor_lower", "ctor_validate">>, <<"mk_lower", "ch_raise">>,
      <<"mk_catch_lower", "exit_fail">>, <<"ch_lower", "cm_raise">>,
      <<"ch_fail_lower", "rollback">>, <<"cm_lower", "alloc_record">>,
      <<"cm_fail_lower", "rollback">>, <<"w_lower1", "w_raise2">>,
      <<"w_fail_lower", "w_lower2">>, <<"w_lower2", "print">>,
      <<"rel_fail1_lower", "exit_fail">>, <<"rel_lower1", "rel_raise2">>,
      <<"rel_fail2_lower", "exit_fail">>, <<"rel_lower2", "return">>,
      <<"res_lower", "return">> }

\* cap_set_proc fails in raise_cap: "Error: problem raising capabilities."
\* is printed and raise_cap returns
RaiseFails ==
    /\ inv.capErr = "none"
    /\ \E s \in RaiseSites :
          /\ inv.pc = s[1]
          /\ inv' = [Step(inv, s[2], FALSE) EXCEPT !.capErr = "raise"]
    /\ UNCHANGED <<fsvars, now, nops, created, waiting>>

\* cap_set_proc fails in lower_cap: "Error: problem lowering capabilities."
\* is printed and lower_cap returns
LowerFails ==
    /\ inv.capErr = "none"
    /\ \E s \in LowerSites :
          /\ inv.pc = s[1]
          /\ inv' = [Step(inv, s[2], FALSE) EXCEPT !.capErr = "lower"]
    /\ UNCHANGED <<fsvars, now, nops, created, waiting>>

NextCapFail == Next \/ RaiseFails \/ LowerFails

SpecCapFail == Init /\ [][NextCapFail]_vars

\* ------------------------------------------- two allocates at the same time
\* Two ws_allocate processes have passed their constructors and stand
\* before the call of allocate (main of ws_allocate) on a file system without
\* records.  One of them is on the processor (inv), the other one waits; the
\* scheduler may switch between them before every step.
RaceCallers == {"alice", "root"}

Validated_allocate(caller) ==
    [IdleInv EXCEPT !.pc = "alloc_begin", !.op = "allocate", !.caller = caller,
                    !.username = caller, !.filesystem = ConfigDefault,
                    !.acctcode = PrimaryGroup(caller),
                    !.duration = 1, !.maxextensions = 1]

InitRace ==
    /\ InitEmpty
    /\ now = 0
    /\ nops = 2
    /\ \E c1 \in RaceCallers, c2 \in RaceCallers :
          /\ inv = Validated_allocate(c1)
          /\ waiting = <<Validated_allocate(c2)>>

\* the kernel takes the processor from the running process and gives it to
\* the waiting one
Switch ==
    /\ waiting # <<>>
    /\ inv' = Head(waiting)
    /\ waiting' = Tail(waiting) \o <<inv>>
    /\ UNCHANGED <<fsvars, now, nops, created>>

NextRace ==
    \/ AllocBegin \/ MkRaise \/ MkDir \/ MkLower \/ MkCatchLower \/ ExitFailStep
    \/ ChRaise \/ ChChown \/ ChLower \/ ChFailLower \/ Rollback
    \/ CmRaise \/ CmChmod \/ CmLower \/ CmFailLower \/ AllocRecord
    \/ WRaise1 \/ WOpen \/ WLower1 \/ WRaise2 \/ WChown \/ WFailLower \/ WLower2
    \/ PrintResult
    \/ Switch

SpecRace == InitRace /\ [][NextRace]_vars

\* ======================================================================
\* Properties
\* ======================================================================
Ended == inv.pc \in {"done", "exit"}
Quiescent == inv.pc \in {"idle", "done", "exit"}

\* C1: whenever an invocation returns or the process exits (cap_set_proc
\* never failing), neither CAP_DAC_OVERRIDE nor CAP_CHOWN is effective.
C1_NothingRaisedAtExit == Ended => inv.raised = {}

\* C2: after a failed raise_cap no privileged system call is attempted, and
\* after a failed lower_cap the operation does not go on.
C2_FailClosed == ~inv.privAfterErr

\* C3: between invocations every live record file belongs to dbuid/dbgid.
C3_RecordsOwnedBySystemAccount ==
    Quiescent =>
        \A k \in DOMAIN recs : recs[k].owner = DbUid /\ recs[k].group = DbGid

\* C4: an allocate whose record chown failed does not end in its success
\* outcome (the directory path printed).
C4_ChownFailureIsReported ==
    (inv.op = "allocate" /\ inv.wchownfail) =>
        ~(inv.pc = "done" /\ inv.out # NoPath)

\* C5: in every state, the directory a live record references exists, belongs
\* to the user who requested the workspace and has mode rwx------.
C5_LiveRecordHasPrivateDirectory ==
    \A k \in DOMAIN recs :
        LET p == recs[k].data.workspace
        IN  /\ Has(wsdirs, p)
            /\ Has(created, k) => wsdirs[p].owner = Uid(created[k].by)
            /\ wsdirs[p].mode = "0700"

\* C6: the extensions of a live record stay between 0 and the number the
\* record was created with, and no step increases them.
C6_ExtensionsInRange ==
    \A k \in DOMAIN recs :
        /\ recs[k].data.extensions >= 0
        /\ Has(created, k) => recs[k].data.extensions <= created[k].extensions

C6_ExtensionsNeverIncrease ==
    \A k \in (DOMAIN recs) \cap (DOMAIN recs') :
        recs'[k].data.extensions <= recs[k].data.extensions

AllocateAgain ==
    inv.op = "allocate" /\ ~inv.ext /\ inv.path \in {"reuse", "extend"}

C7_AllocationIdempotence ==
    /\ [](AllocateAgain /\ inv.pc = "done" =>
            /\ Has(created, inv.dbfile)
            /\ inv.out = created[inv.dbfile].wsdir)
    /\ [][AllocateAgain' => UNCHANGED fsvars]_vars

\* the owner allocates a live workspace a second time
C7_Witness ==
    /\ AllocateAgain /\ inv.pc = "done"
    /\ inv.dbfile[2] = inv.username
    /\ inv.out = recs[inv.dbfile].data.workspace

\* C8: allocate with the extend flag for a name without a record ends with
\* exit(-1) at once.
C8_ExtendOfMissingRecordFails ==
    [][(inv.pc = "alloc_begin" /\ inv'.ext /\ ~Has(recs, inv'.dbfile)) =>
          (inv'.pc = "exit" /\ inv'.code = ExitFail)]_vars

\* C9: an extend of an existing workspace goes on only for the owner, for
\* root, or for a caller with rwx access to the directory; every other
\* caller ends with exit(-1) and nothing is changed.
ExtendAuthorized(caller, username, dbfile, dir) ==
    \/ dbfile[2] = username
    \/ Uid(caller) = 0
    \/ access(wsdirs, dir, caller)

C9_ExtendNeedsAuthorization ==
    /\ [](inv.path = "extend" =>
            ExtendAuthorized(inv.caller, inv.username, inv.dbfile, inv.wsdir))
    /\ [][(/\ inv.pc = "alloc_begin" /\ inv'.ext /\ Has(recs, inv'.dbfile)
           /\ ~ExtendAuthorized(inv.caller, inv.username, inv'.dbfile,
                                recs[inv'.dbfile].data.workspace))
          => (inv'.pc = "exit" /\ inv'.code = ExitFail /\ UNCHANGED fsvars)]_vars

\* a caller who is neither the owner nor root is turned away
C9_Witness ==
    /\ inv.pc = "exit" /\ inv.code = ExitFail /\ inv.op = "allocate" /\ inv.ext
    /\ Has(recs, inv.dbfile)
    /\ ~ExtendAuthorized(inv.caller, inv.username, inv.dbfile,
                         recs[inv.dbfile].data.workspace)

\* C10: with the filesystem option given, validate lets the identity pass
\* if and only if both ACLs are empty, or the username is in user_acl, or
\* one of its groups is in group_acl.
AclAllows(username, groups, user_acl, group_acl) ==
    \/ (SeqToSet(user_acl) = {} /\ SeqToSet(group_acl) = {})
    \/ username \in SeqToSet(user_acl)
    \/ SeqToSet(groups) \cap SeqToSet(group_acl) # {}

C10_CheckAcl ==
    inv.fsopt # "" =>
        ((inv.pc = "exit" /\ inv.code = ExitAcl) <=>
            ~AclAllows(inv.username, GroupNames(inv.username),
                       inv.config.user_acl, inv.config.group_acl))

\* an identity in neither of two non-empty lists is denied
C10_Witness ==
    /\ inv.pc = "exit" /\ inv.code = ExitAcl
    /\ Len(inv.config.user_acl) > 0 /\ Len(inv.config.group_acl) > 0

\* C11: an unprivileged identity that names a filesystem whose ACL denies it
\* ends with exit(4), a code other than exit(-1) and exit(1), and up to that
\* exit the invocation has run the constructor only, which changes no
\* directory and no record.
CtorPcs ==
    {"ctor_conf", "ctor_raise1", "ctor_raise2", "ctor_private", "ctor_lower",
     "ctor_validate"}

AclDenies(i) ==
    /\ i.fsopt # "" /\ Uid(i.caller) # 0
    /\ ~AclAllows(i.username, GroupNames(i.username),
                  i.config.user_acl, i.config.group_acl)

C11_AccessDenied ==
    /\ ExitAcl \notin {ExitOk, ExitFail, ExitTarget, ExitAbort}
    /\ [][(inv.pc = "ctor_validate" /\ AclDenies(inv'))
             => (inv'.pc = "exit" /\ inv'.code = ExitAcl)]_vars
    /\ [][inv.pc \in CtorPcs => UNCHANGED fsvars]_vars
    /\ [](inv.code = ExitAcl => inv.dbfile = NoKey /\ inv.wsdir = NoPath)

\* bob or alice is turned away from a filesystem whose lists do not name them
C11_Witness ==
    /\ inv.pc = "exit" /\ inv.code = ExitAcl /\ AclDenies(inv)
    /\ inv.op \in {"allocate", "release", "restore"}

\* C12: without a filesystem option validate resolves, first match wins, the
\* file system whose userdefault list names the user, else the one whose
\* groupdefault list names the primary group, else the one whose
\* groupdefault list names the first group of the group list that is named
\* anywhere, else the global default.
NamedIn(lists, name) == {fs \in DOMAIN lists : name \in SeqToSet(lists[fs])}

FirstGroupNamed(lists, groupnames) ==
    LET hits == {i \in 1..Len(groupnames) : NamedIn(lists, groupnames[i]) # {}}
    IN  IF hits = {} THEN 0 ELSE CHOOSE i \in hits : \A j \in hits : i <= j

ExpectedFilesystem(cfg, username) ==
    LET g == FirstGroupNamed(cfg.groupdefault, GroupNames(username))
    IN  IF NamedIn(cfg.userdefault, username) # {}
        THEN CHOOSE fs \in NamedIn(cfg.userdefault, username) : TRUE
        ELSE IF NamedIn(cfg.groupdefault, PrimaryGroup(username)) # {}
        THEN CHOOSE fs \in NamedIn(cfg.groupdefault, PrimaryGroup(username)) : TRUE
        ELSE IF g # 0
        THEN CHOOSE fs \in NamedIn(cfg.groupdefault, GroupNames(username)[g]) : TRUE
        ELSE cfg.default

ValidatePassed == inv.pc \in {"alloc_begin", "rel_begin", "res_begin"}

C12_ResolveFilesystem ==
    (ValidatePassed /\ inv.fsopt = "") =>
        inv.filesystem = ExpectedFilesystem(inv.config, inv.username)

\* C13: the duration ceiling and the extension ceiling are the userexception
\* if there is one, else the value of the file system if there is one, else
\* the global value; an unprivileged caller gets the smaller of request and
\* ceiling, root gets the request; a clamp that lowers the request prints a
\* message and validate goes on.
Ceiling(ux, fsv, glob) ==
    CASE ux # Absent -> ux
      [] ux = Absent /\ fsv # Absent -> fsv
      [] OTHER -> glob

Min(a, b) == IF a <= b THEN a ELSE b

HasException(i) == i.hasPrivate /\ i.config.ux_user = i.username

DurationCeiling(i) ==
    Ceiling(IF HasException(i) THEN i.config.ux_duration ELSE Absent,
            i.config.fs_duration, i.config.duration)

ExtensionCeiling(i) ==
    Ceiling(IF HasException(i) THEN i.config.ux_maxextensions ELSE Absent,
            i.config.fs_maxextensions, i.config.maxextensions)

C13_ResolveLimits ==
    (inv.pc = "ctor_validate" \/ inv.op # "allocate") \/
        /\ inv.pc = "alloc_begin"
        /\ inv.maxextensions = ExtensionCeiling(inv)
        /\ inv.duration = IF Uid(inv.caller) = 0 THEN inv.reqdur
                          ELSE Min(inv.reqdur, DurationCeiling(inv))
        /\ inv.duration <= inv.reqdur
        /\ inv.warn <=> inv.duration < inv.reqdur

\* bob asks for more days than his userexception grants and is clamped to it
C13_Witness ==
    /\ inv.pc = "alloc_begin" /\ HasException(inv)
    /\ inv.config.ux_duration # Absent /\ inv.config.fs_duration # Absent
    /\ inv.reqdur > inv.config.ux_duration
    /\ inv.duration = inv.config.ux_duration /\ inv.warn

\* C14: a record written by write_dbfile and read by read_dbfile delivers to
\* the reader the written value of each of the six fields.
C14_RecordRoundTrip ==
    inv.pc = "read_done" =>
        /\ inv.wsdir = inv.wdata.workspace
        /\ inv.expiration = inv.wdata.expiration
        /\ inv.extension = inv.wdata.extensions
        /\ inv.acctcode = inv.wdata.acctcode
        /\ inv.reminder = inv.wdata.reminder
        /\ inv.mail = inv.wdata.mailaddress

\* C15: a restore of a trashed workspace whose directory a successful
\* release has put into the trash, into a target with a live record, leaves
\* the directory under the path of the target and no longer in the trash,
\* removes the trashed record and leaves the live records as they are.
RestoreSource(i) == <<i.wsdir[1], i.tname>>

RestoredUnderTarget(i, dir) ==
    /\ Has(wsdirs', i.targetwsdir)
    /\ \/ i.tname \in wsdirs'[i.targetwsdir].sub
       \/ (~Has(wsdirs, i.targetwsdir) /\ wsdirs'[i.targetwsdir] = dir)

C15_ReleaseRestoreRoundTrip ==
    /\ [][(inv.pc = "res_mv" /\ Has(trashdirs, RestoreSource(inv)))
             => /\ ~Has(trashdirs', RestoreSource(inv))
                /\ RestoredUnderTarget(inv, trashdirs[RestoreSource(inv)])]_vars
    /\ []((inv.op = "restore" /\ inv.pc = "done" /\ inv.dbfile # NoKey)
             => ~Has(trashrecs, inv.dbfile))
    /\ [][inv.op = "restore" => UNCHANGED recs]_vars

\* C16: the trash name a release computes, <owner>-<name>-<timestamp>, is
\* the name of no record and of no directory an earlier release has put
\* into the trash, so that its two renames replace nothing and move into
\* nothing.
C16_TrashNameUnique ==
    (inv.op = "release" /\ inv.pc \in {"rel_raise1", "rel_rename_db"}) =>
        /\ ~Has(trashrecs, <<inv.filesystem,
                             TrashTag(inv.username, inv.name, inv.stamp)>>)
        /\ ~Has(trashdirs, WsTarget(inv))

\* C17: a restore whose target has no live record ends with exit(1), a
\* restore whose trashed record does not exist does not end with status 0,
\* and neither changes a record or a directory.
C17_RestoreOfMissingFails ==
    /\ [][(inv.pc = "res_begin" /\
            ~Has(recs, <<inv.filesystem, inv'.tuser, inv'.target>>))
             => (inv'.pc = "exit" /\ inv'.code = ExitTarget)]_vars
    /\ []((inv.op = "restore" /\ inv.pc = "done" /\ inv.code = ExitOk)
             => inv.dbfile # NoKey)
    /\ [][(inv.op = "restore" /\ inv.dbfile = NoKey /\ inv'.dbfile = NoKey)
             => UNCHANGED fsvars]_vars

\* C18: a release ends in its success outcome only if the workspace
\* directory is no longer at its path and is at the tagged path in the
\* trash; when rename and the fallback move both fail, the move that could
\* not be started included, it ends with exit(-1).
C18_ReleaseFailureIsReported ==
    (inv.op = "release" /\ inv.pc = "done" /\ inv.code = ExitOk) =>
        /\ ~Has(wsdirs, inv.wsdir)
        /\ Has(trashdirs, WsTarget(inv))

\* C19: when the chown or the chmod of the directory allocate has created
\* fails, the directory is removed before the process exits, and no record
\* of the workspace exists.
Referenced(dir) == \E k \in DOMAIN recs : recs[k].data.workspace = dir

C19_CreationRollback ==
    [][(inv.pc = "rollback" /\ ~Referenced(inv.wsdir))
         => /\ inv'.pc = "exit" /\ inv'.code = ExitFail
            /\ ~Has(wsdirs', inv.wsdir)
            /\ ~Has(recs', inv.dbfile)]_vars

\* C20: the directory allocate creates is <space>/<owner>-<name> with the
\* owner of the record name <owner>-<name>: the username of the caller, or
\* the user named with -u when the caller is root.
C20_DirectoryNamedAfterOwner ==
    inv.path = "create" =>
        /\ inv.wsdir[1] \in SeqToSet(Spaces(inv.filesystem))
        /\ inv.wsdir[2] = inv.dbfile[2]
        /\ inv.wsdir[3] = inv.name
        /\ (inv.dbfile[2] = inv.username \/ Uid(inv.caller) = 0)

\* C21: within one invocation raise_cap and lower_cap come in strictly
\* matching pairs: raise_cap is never called while a capability is
\* effective, and lower_cap is never called when none is, at every call of
\* the constructor, allocate, release, restore and write_dbfile.
RaisePcs == {s[1] : s \in RaiseSites}
LowerPcs == {s[1] : s \in LowerSites}

C21_RaiseLowerPaired ==
    /\ inv.pc \in RaisePcs => inv.raised = {}
    /\ inv.pc \in LowerPcs => inv.raised # {}

\* C22: with two allocate invocations running at the same time for the same
\* file system, owner and name and no live record, the only thing that keeps
\* a process off the creation path is the record file it finds at its
\* existence test: a process that finds no file goes on to create the
\* directory and write the record whatever the other process is doing, so
\* that both can find the record absent and both run the creation path.
OnProcessor == waiting' = waiting

C22_ExistenceTestIsOnlySignal ==
    /\ [][(inv.pc = "alloc_begin" /\ OnProcessor /\ ~inv'.ext)
             => /\ inv'.dbfile \notin DOMAIN recs
                     => (inv'.path = "create" /\ inv'.pc = "mk_raise")
                /\ inv'.dbfile \in DOMAIN recs => inv'.path = "reuse"]_vars
    /\ [][(OnProcessor /\ inv.path = "create") => inv'.path = "create"]_vars

\* both processes found alice-x absent, and both have created the directory,
\* changed its owner and mode, written the record and printed the path
CreatedBy(i, k) ==
    /\ i.pc = "done" /\ i.path = "create" /\ i.dbfile = k
    /\ i.out = i.wsdir /\ i.code = ExitOk

C22_Witness ==
    /\ Len(waiting) = 1
    /\ CreatedBy(inv, <<"scratch", "alice", "x">>)
    /\ CreatedBy(waiting[1], <<"scratch", "alice", "x">>)
    /\ Has(recs, <<"scratch", "alice", "x">>)
    /\ Has(wsdirs, inv.wsdir) /\ Has(wsdirs, waiting[1].wsdir)

\* C23: after any sequence of allocate calls by different users on one file
\* system, whatever names and user options they give, no two live records
\* of different owners reference the same directory, and no step of an
\* allocate changes the owner or the mode of a directory that the live
\* record of another user references.
RecordsOfOthers(i) ==
    {k \in DOMAIN recs : k[2] # i.username /\ (i.dbfile # NoKey => k[2] # i.dbfile[2])}

C23_NoSharedDirectory ==
    /\ [](\A k1 \in DOMAIN recs, k2 \in DOMAIN recs :
             k1[2] # k2[2] => recs[k1].data.workspace # recs[k2].data.workspace)
    /\ [][inv.op = "allocate" =>
             \A k \in RecordsOfOthers(inv) :
                 LET p == recs[k].data.workspace
                 IN  (Has(wsdirs, p) /\ Has(wsdirs', p)) =>
                         /\ wsdirs'[p].owner = wsdirs[p].owner
                         /\ wsdirs'[p].mode = wsdirs[p].mode]_vars

\* C24: restore removes the trashed record only after the move of the
\* trashed directory into the target has succeeded: once restore has
\* returned, a directory that is still in the trash still has its trashed
\* record, and the process has not ended with the status of success.
C24_RestoreKeepsRecordOfUnmovedDirectory ==
    (/\ inv.op = "restore" /\ inv.pc = "done" /\ inv.dbfile # NoKey
     /\ Has(trashdirs, RestoreSource(inv)))
        => /\ Has(trashrecs, inv.dbfile)
           /\ inv.code # ExitOk

====
